---------------------------- MODULE Spec2Model ----------------------------
(***************************************************************************)
(* The undo/redo history store of the React course's demo application:     *)
(* historyReducer and the UndoRedoDemo component that owns its state       *)
(* (react-course/vite-starter/src/components/UndoRedoDemo.jsx).            *)
(*                                                                         *)
(* A history state is a record {past, present, future}; an action is a     *)
(* record {type, value}.  The reducer is a pure function of both; the      *)
(* component holds one history state and replaces it by the reducer's      *)
(* result on every dispatch.                                               *)
(*                                                                         *)
(* The dispatch actions are the store's operations as the reducer accepts  *)
(* them: any action in any state.  The demo's Undo and Redo buttons are    *)
(* disabled when past, respectively future, is empty; the reducer's own    *)
(* guards (lines 9 and 17) are what the model exercises.                   *)
(*                                                                         *)
(* The application's other stateful components (Timer, FetchUsers,         *)
(* VdomKeysFocusDemo, Dashboard) share no state with it or with each       *)
(* other; each has one variable and a specification of its own, in which   *)
(* the rest of the application stays as mounted.                           *)
(***************************************************************************)
EXTENDS Naturals, Sequences, FiniteSets

\* Longest past the model lets 'set' build (the code has no limit).
MaxHist == 3

\* The strings a text input can hold, cut down to three; "" is the demo's
\* initial and reset value.
Values == {"a", "b", ""}

\* JavaScript's undefined: what an out-of-range array read or an absent
\* action.value evaluates to.  It is not a member of Values.
Undefined == "<undefined>"

\* Action types the reducer's switch has no case for (lesson 16 names the
\* upper-case forms).
OtherTypes == {"UNDO", "REDO"}

VARIABLES
    state,      \* the component's history state: [past, present, future]
    prev,       \* the state the most recent dispatch was applied to
    last,       \* the most recent action dispatched ("none" before the first)
    prev2,      \* the state the dispatch before that one was applied to
    last2,      \* the action dispatched before the most recent one
    v0,         \* the present the store was constructed with
    run,        \* ok: so far the dispatches are `sets` 'set's then `undos` 'undo's
    script,     \* how many steps of Scenario the dispatches so far have followed
    undone,     \* an undo has changed the state since the last set, reset or construction
    round       \* ok: so far n 'set's, then 'undo's, then 'redo's; top: state after the last set

historyVars == <<state, prev, last, prev2, last2, v0, run, script, undone, round>>

\* The demo application's other components, each with a state of its own.
VARIABLES
    timer,      \* Timer: seconds, the interval, and a count of its ticks
    fetch,      \* FetchUsers: users, loading, error, the effect's flag, the request
    vdom,       \* VdomKeysFocusDemo: items, each list's rows by key, the last operation
    dash        \* Dashboard: tasks, the clock, the initial load's timer

otherVars == <<timer, fetch, vdom, dash>>

vars == <<historyVars, otherVars>>

-----------------------------------------------------------------------------
(* Sequences, as the JavaScript array expressions of the reducer compute    *)
(* them.                                                                    *)

\* arr[i] with a JavaScript 0-based index: undefined when out of range.
At(arr, i) == IF i >= 0 /\ i < Len(arr) THEN arr[i + 1] ELSE Undefined

\* arr[arr.length - 1]
LastOf(arr) == IF Len(arr) = 0 THEN Undefined ELSE arr[Len(arr)]

\* arr.slice(0, -1): all but the last element; [] for the empty array.
SliceDropLast(arr) == IF Len(arr) = 0 THEN <<>> ELSE SubSeq(arr, 1, Len(arr) - 1)

\* arr.slice(1): all but the first element; [] for the empty array.
SliceFrom1(arr) == IF Len(arr) = 0 THEN <<>> ELSE Tail(arr)

-----------------------------------------------------------------------------
(* The actions the component's handlers build.                              *)

SetAction(v)   == [type |-> "set", value |-> v]
UndoAction     == [type |-> "undo", value |-> Undefined]
RedoAction     == [type |-> "redo", value |-> Undefined]
ResetAction(v) == [type |-> "reset", value |-> v]
OtherAction(t) == [type |-> t, value |-> Undefined]
NoAction       == [type |-> "none", value |-> Undefined]

-----------------------------------------------------------------------------
(* historyReducer, one operator per case of its switch.                     *)

\* case "set": past gets the old present appended, value becomes present,
\* future is replaced by [].
caseSet_keepFuture(s, action) ==
    [past |-> Append(s.past, s.present), present |-> action.value, future |-> s.future]

caseSet_dedupe(s, action) ==
    IF action.value = s.present THEN s
    ELSE [past |-> Append(s.past, s.present), present |-> action.value, future |-> <<>>]

caseSet(s, action) ==
    [past |-> Append(s.past, s.present), present |-> action.value, future |-> <<>>]

\* case "undo"
caseUndo_noGuard(s) ==
    [past |-> SliceDropLast(s.past),
     present |-> LastOf(s.past),
     future |-> <<s.present>> \o s.future]

caseUndo_oldest(s) ==
    IF Len(s.past) = 0 THEN s
    ELSE [past |-> SliceFrom1(s.past),
          present |-> At(s.past, 0),
          future |-> <<s.present>> \o s.future]

caseUndo(s) ==
    IF Len(s.past) = 0 THEN s
    ELSE [past |-> SliceDropLast(s.past),
          present |-> LastOf(s.past),
          future |-> <<s.present>> \o s.future]

\* case "redo"
caseRedo_noGuard(s) ==
    [past |-> Append(s.past, s.present),
     present |-> At(s.future, 0),
     future |-> SliceFrom1(s.future)]

caseRedo_prepend(s) ==
    IF Len(s.future) = 0 THEN s
    ELSE [past |-> <<s.present>> \o s.past,
          present |-> At(s.future, 0),
          future |-> SliceFrom1(s.future)]

caseRedo_newest(s) ==
    IF Len(s.future) = 0 THEN s
    ELSE [past |-> Append(s.past, s.present),
          present |-> LastOf(s.future),
          future |-> SliceDropLast(s.future)]

caseRedo(s) ==
    IF Len(s.future) = 0 THEN s
    ELSE [past |-> Append(s.past, s.present),
          present |-> At(s.future, 0),
          future |-> SliceFrom1(s.future)]

\* case "reset"
caseReset_keepPast(s, action) ==
    [past |-> s.past, present |-> action.value, future |-> <<>>]

caseReset(s, action) ==
    [past |-> <<>>, present |-> action.value, future |-> <<>>]

\* A switch that also accepts the upper-case action names.
historyReducer_upperCase(s, action) ==
    CASE action.type = "set"               -> caseSet(s, action)
      [] action.type \in {"UNDO", "undo"}  -> caseUndo(s)
      [] action.type \in {"REDO", "redo"}  -> caseRedo(s)
      [] action.type = "reset"             -> caseReset(s, action)
      [] OTHER                             -> s

historyReducer(s, action) ==
    CASE action.type = "set"   -> caseSet(s, action)
      [] action.type = "undo"  -> caseUndo(s)
      [] action.type = "redo"  -> caseRedo(s)
      [] action.type = "reset" -> caseReset(s, action)
      [] OTHER                 -> s

\* The Undo button's disabled attribute: state.past.length === 0.
UndoDisabled_future(s) == Len(s.future) = 0

UndoDisabled(s) == Len(s.past) = 0

\* The Redo button's disabled attribute: state.future.length === 0.
RedoDisabled(s) == Len(s.future) = 0

-----------------------------------------------------------------------------
(* The history variables that record the dispatches.                        *)

\* The record of the dispatches since construction: while ok, they were
\* run.sets 'set' actions followed by run.undos <= run.sets 'undo' actions.
\* Any other dispatch, also an undo beyond the number of sets, ends the run.
NotARun == [ok |-> FALSE, sets |-> 0, undos |-> 0]

track(r, action) ==
    CASE r.ok /\ action.type = "set" /\ r.undos = 0         -> [r EXCEPT !.sets = @ + 1]
      [] r.ok /\ action.type = "undo" /\ r.undos < r.sets   -> [r EXCEPT !.undos = @ + 1]
      [] OTHER                                              -> NotARun

\* The lesson's worked example, as a sequence of dispatches from present = "".
Scenario ==
    << SetAction("a"), SetAction("b"), UndoAction, UndoAction, UndoAction,
       RedoAction, ResetAction("z") >>

\* The script position of a run that has left the scenario, or ended it and
\* gone on.
OffScript == Len(Scenario) + 1

\* The script position after one more dispatch.
follow(k, action) ==
    IF k < Len(Scenario) /\ action = Scenario[k + 1] THEN k + 1 ELSE OffScript

\* Whether a state-changing undo has happened since the last set or reset.
trackUndone(u, s, action) ==
    CASE action.type \in {"set", "reset"} -> FALSE
      [] action.type = "undo"             -> u \/ historyReducer(s, action) # s
      [] OTHER                            -> u

\* The record of a run of n sets, then up to n undos, then up to n redos
\* since construction; top is the state right after the last set.
NotARound ==
    [ok |-> FALSE, sets |-> 0, undos |-> 0, redos |-> 0,
     top |-> [past |-> <<>>, present |-> Undefined, future |-> <<>>]]

trackRound(r, action, result) ==
    CASE r.ok /\ action.type = "set" /\ r.undos = 0 /\ r.redos = 0 ->
            [r EXCEPT !.sets = @ + 1, !.top = result]
      [] r.ok /\ action.type = "undo" /\ r.redos = 0 /\ r.undos < r.sets ->
            [r EXCEPT !.undos = @ + 1]
      [] r.ok /\ action.type = "redo" /\ r.undos = r.sets /\ r.redos < r.sets ->
            [r EXCEPT !.redos = @ + 1]
      [] OTHER -> NotARound

\* useReducer's dispatch: the next render's state is the reducer's result.
dispatch(action) ==
    /\ state' = historyReducer(state, action)
    /\ prev'  = state
    /\ last'  = action
    /\ prev2' = prev
    /\ last2' = last
    /\ run'   = track(run, action)
    /\ v0'    = v0
    /\ script' = follow(script, action)
    /\ undone' = trackUndone(undone, state, action)
    /\ round'  = trackRound(round, action, historyReducer(state, action))
    /\ UNCHANGED otherVars

\* The input's onChange.  The guard is the model's bound on the past.
DispatchSet ==
    \E v \in Values : Len(state.past) < MaxHist /\ dispatch(SetAction(v))

\* The Undo button's onClick.
DispatchUndo == dispatch(UndoAction)

\* The Redo button's onClick.
DispatchRedo == dispatch(RedoAction)

\* The Reset button's onClick; the demo passes "", the reducer takes any value.
DispatchReset_whenDirty ==
    \E v \in Values :
        (state.past # <<>> \/ state.future # <<>>) /\ dispatch(ResetAction(v))

DispatchReset == \E v \in Values : dispatch(ResetAction(v))

\* An action whose type the switch does not know.
DispatchOther == \E t \in OtherTypes : dispatch(OtherAction(t))

Next ==
    \/ DispatchSet
    \/ DispatchUndo
    \/ DispatchRedo
    \/ DispatchReset
    \/ DispatchOther

\* Sequences over S of length at most n.
SeqUpTo(S, n) == UNION {[1..k -> S] : k \in 0..n}

\* The history states within the model's bound.
HistoryStates ==
    {s \in [past : SeqUpTo(Values, MaxHist), present : Values,
            future : SeqUpTo(Values, MaxHist)] :
        Len(s.past) + Len(s.future) <= MaxHist}

-----------------------------------------------------------------------------
(* Timer: a seconds counter driven by setInterval, cleared by the effect's  *)
(* cleanup.                                                                 *)

\* The model stops the clock here (the code counts on).
MaxSeconds == 60

\* The updater passed to setSeconds: (s) => s + 1.
secondsUpdater(sec) == sec + 1

\* useState(0), then the effect: setInterval(..., 1000).
TimerInit ==
    timer = [seconds |-> 0, interval |-> TRUE, mounted |-> TRUE,
             ticks |-> 0, atUnmount |-> 0]

\* The interval's callback: setSeconds((s) => s + 1).
TimerTick ==
    /\ timer.interval
    /\ timer.seconds < MaxSeconds
    /\ timer' = [timer EXCEPT !.seconds = secondsUpdater(@), !.ticks = @ + 1]
    /\ UNCHANGED <<historyVars, fetch, vdom, dash>>

\* The effect's cleanup on unmount: clearInterval(id).
TimerUnmount_noClear ==
    /\ timer.mounted
    /\ timer' = [timer EXCEPT !.mounted = FALSE, !.atUnmount = timer.seconds]
    /\ UNCHANGED <<historyVars, fetch, vdom, dash>>

TimerUnmount ==
    /\ timer.mounted
    /\ timer' = [timer EXCEPT !.mounted = FALSE, !.interval = FALSE,
                              !.atUnmount = timer.seconds]
    /\ UNCHANGED <<historyVars, fetch, vdom, dash>>

TimerNext == TimerTick \/ TimerUnmount

-----------------------------------------------------------------------------
(* FetchUsers: one request started by the mount effect; its callbacks test  *)
(* the flag the cleanup sets.                                               *)

\* Longest user list a response carries in the model.
MaxUsers == 4

\* The users a response can list, and the messages a failure can carry.
Users == {"u1", "u2", "u3"}
ErrorMessages == {"Failed to fetch", "Unexpected token"}

\* JavaScript's null: useState(null) for error.
Null == "<null>"

Pending == [value |-> Null, status |-> "pending"]

\* .then((data) => { if (!cancelled) { setUsers(data); setLoading(false); } })
onData_noCheck(f, data) == [f EXCEPT !.users = data, !.loading = FALSE]

onData(f, data) ==
    IF ~f.cancelled THEN [f EXCEPT !.users = data, !.loading = FALSE] ELSE f

\* .catch((err) => { if (!cancelled) { setError(err.message); setLoading(false); } })
onError(f, msg) ==
    IF ~f.cancelled THEN [f EXCEPT !.error = msg, !.loading = FALSE] ELSE f

\* The three useState calls, then the effect: cancelled = false, fetch(...).
FetchInit ==
    fetch = [mounted |-> TRUE, atUnmount |-> <<>>, users |-> <<>>,
             loading |-> TRUE, cancelled |-> FALSE, error |-> Null,
             request |-> Pending]

\* The response arrives and parses: the .then callback runs with its data.
FetchResolve ==
    /\ fetch.request.status = "pending"
    /\ \E data \in SeqUpTo(Users, MaxUsers) :
         fetch' = [onData(fetch, data) EXCEPT
                      !.request = [value |-> data, status |-> "resolved"]]
    /\ UNCHANGED <<historyVars, timer, vdom, dash>>

\* The request or r.json() fails: the .catch callback runs with the error.
FetchReject ==
    /\ fetch.request.status = "pending"
    /\ \E msg \in ErrorMessages :
         fetch' = [onError(fetch, msg) EXCEPT
                      !.request = [value |-> msg, status |-> "rejected"]]
    /\ UNCHANGED <<historyVars, timer, vdom, dash>>

\* The effect's cleanup on unmount: cancelled = true.
FetchUnmount ==
    /\ fetch.mounted
    /\ fetch' = [fetch EXCEPT !.cancelled = TRUE, !.mounted = FALSE,
                  !.atUnmount = <<fetch.users, fetch.loading, fetch.error>>]
    /\ UNCHANGED <<historyVars, timer, vdom, dash>>

FetchNext == FetchResolve \/ FetchReject \/ FetchUnmount

-----------------------------------------------------------------------------
(* VdomKeysFocusDemo: one items array rendered twice, by BadList with the   *)
(* index as key and by GoodList with item.id as key.  Every row is a        *)
(* ListItem holding its own text; on a render React keeps the row (and its  *)
(* state) of every key that is still there, and mounts a fresh row for      *)
(* every new key.                                                           *)

\* Array.from({ length: 5 }, ...)
NumItems == 5

\* How many times the model lets the user type into a row.
MaxTyping == 2

\* What the user types into a row's input.
Texts == {"x", "y"}

\* String(n), and a number used as a key, for the numbers the demo has.
ToString(n) == <<"0", "1", "2", "3", "4", "5">>[n + 1]

\* `Item ${n}`
ItemName(n) == <<"Item 1", "Item 2", "Item 3", "Item 4", "Item 5">>[n]

\* makeItems(): { id: String(i + 1), name: `Item ${i + 1}` } for i = 0..4.
makeItems == [n \in 1..NumItems |-> [id |-> ToString(n), name |-> ItemName(n)]]

\* BadList: key={index}.
BadKey(item, index) == ToString(index)

\* GoodList: key={item.id}.
GoodKey_index(item, index) == ToString(index)

GoodKey(item, index) == item.id

\* The key a list ("bad" or "good") gives the row of an item.
KeyFor(list, item, index) ==
    IF list = "bad" THEN BadKey(item, index) ELSE GoodKey(item, index)

\* The keys of a list's rows, for the items rendered (index is 0-based).
KeysOf(items, list) == {KeyFor(list, items[i], i - 1) : i \in 1..Len(items)}

\* The rows after rendering `items`: a key that was there keeps its row's
\* text, a new key gets a ListItem with useState("").
Reconcile(rows, items, list) ==
    [k \in KeysOf(items, list) |-> IF k \in DOMAIN rows THEN rows[k] ELSE ""]

\* The text in the row a list shows at (1-based) position i.
RowText(rows, items, list, i) == rows[KeyFor(list, items[i], i - 1)]

\* (arr) => (arr.length > 0 ? [...arr.slice(1), arr[0]] : arr)
moveFirstToEnd(arr) ==
    IF Len(arr) > 0 THEN SliceFrom1(arr) \o <<At(arr, 0)>> ELSE arr

\* (arr) => arr.slice(1)
removeFirst(arr) == SliceFrom1(arr)

\* useState(() => makeItems()) and the first render of both lists.
VdomInit ==
    vdom = [items |-> makeItems,
            bad   |-> Reconcile(<<>>, makeItems, "bad"),
            good  |-> Reconcile(<<>>, makeItems, "good"),
            typed |-> 0,
            lastOp |-> "none",
            prevItems |-> makeItems,
            prevBad   |-> Reconcile(<<>>, makeItems, "bad"),
            prevGood  |-> Reconcile(<<>>, makeItems, "good")]

\* setItems(...) and the render that follows it.
render(newItems, op) ==
    /\ vdom' = [vdom EXCEPT
                  !.items = newItems,
                  !.bad   = Reconcile(vdom.bad, newItems, "bad"),
                  !.good  = Reconcile(vdom.good, newItems, "good"),
                  !.lastOp = op,
                  !.prevItems = vdom.items,
                  !.prevBad   = vdom.bad,
                  !.prevGood  = vdom.good]
    /\ UNCHANGED <<historyVars, timer, fetch, dash>>

\* The "Move first to end" button.
VdomMoveFirstToEnd == render(moveFirstToEnd(vdom.items), "move")

\* The "Remove first" button.
VdomRemoveFirst == render(removeFirst(vdom.items), "remove")

\* The "Reset" button: setItems(makeItems()).
VdomReset == render(makeItems, "reset")

\* Typing into the input of the row at position i of BadList: setText.
VdomTypeBad ==
    /\ vdom.typed < MaxTyping
    /\ \E i \in 1..Len(vdom.items), t \in Texts :
         vdom' = [vdom EXCEPT
                    !.bad[BadKey(vdom.items[i], i - 1)] = t,
                    !.typed = @ + 1,
                    !.lastOp = "type",
                    !.prevItems = vdom.items,
                    !.prevBad   = vdom.bad,
                    !.prevGood  = vdom.good]
    /\ UNCHANGED <<historyVars, timer, fetch, dash>>

\* Typing into the input of the row at position i of GoodList: setText.
VdomTypeGood ==
    /\ vdom.typed < MaxTyping
    /\ \E i \in 1..Len(vdom.items), t \in Texts :
         vdom' = [vdom EXCEPT
                    !.good[GoodKey(vdom.items[i], i - 1)] = t,
                    !.typed = @ + 1,
                    !.lastOp = "type",
                    !.prevItems = vdom.items,
                    !.prevBad   = vdom.bad,
                    !.prevGood  = vdom.good]
    /\ UNCHANGED <<historyVars, timer, fetch, dash>>

VdomNext ==
    \/ VdomMoveFirstToEnd
    \/ VdomRemoveFirst
    \/ VdomReset
    \/ VdomTypeBad
    \/ VdomTypeGood

-----------------------------------------------------------------------------
(* Dashboard: the task list of tasksReducer, the user's add, toggle and     *)
(* remove, and the mount effect's timer that dispatches 'set' with the      *)
(* initial tasks.                                                           *)

\* setTimeout(..., 400)
LoadDelay == 400

\* Date.now() when the component mounts, and how far the model lets the
\* clock run on from there (milliseconds).
MountTime == 1000
MaxElapsed == 400

\* Longest task list the model lets 'add' build.
MaxTasks == 4

\* What the user submits in the new-task form, and what trim() makes of it.
Inputs == {"", "y", " ", " x "}

Trim(t) ==
    CASE t = " "   -> ""
      [] t = " x " -> "x"
      [] OTHER     -> t

\* String(n) for a number n >= 0: its decimal digits.
RECURSIVE DecimalString(_)
DecimalString(n) ==
    LET digit == <<"0", "1", "2", "3", "4", "5", "6", "7", "8", "9">>[(n % 10) + 1]
    IN  IF n < 10 THEN <<digit>> ELSE Append(DecimalString(n \div 10), digit)

\* The tasks the initial load sets.
InitialTasks ==
    << [id |-> <<"1">>, text |-> "Write docs",   done |-> FALSE],
       [id |-> <<"2">>, text |-> "Review PRs",   done |-> TRUE],
       [id |-> <<"3">>, text |-> "Plan roadmap", done |-> FALSE] >>

\* tasksReducer; `now` is what Date.now() returns during the call.
tasksReducer(tasks, action, now) ==
    CASE action.type = "set" -> action.tasks
      [] action.type = "add" ->
            Append(tasks, [id |-> DecimalString(now), text |-> action.text,
                           done |-> FALSE])
      [] action.type = "toggle" ->
            [i \in 1..Len(tasks) |->
                IF tasks[i].id = action.id
                THEN [tasks[i] EXCEPT !.done = ~tasks[i].done]
                ELSE tasks[i]]
      [] action.type = "remove" ->
            SelectSeq(tasks, LAMBDA t : t.id # action.id)
      [] OTHER -> tasks

\* The added tasks no 'remove' has named since.
owedAfter(owed, action, now) ==
    CASE action.type = "add" ->
            owed \cup {[id |-> DecimalString(now), text |-> action.text]}
      [] action.type = "remove" -> {o \in owed : o.id # action.id}
      [] OTHER -> owed

\* useReducer(tasksReducer, []), then the effect: setTimeout(..., 400).
DashInit ==
    dash = [mounted |-> TRUE, tasks |-> <<>>, now |-> MountTime,
            owed |-> {}, load |-> "pending"]

\* useReducer's dispatch.
dashDispatch(action) ==
    /\ dash' = [dash EXCEPT
                  !.tasks = tasksReducer(dash.tasks, action, dash.now),
                  !.owed  = owedAfter(dash.owed, action, dash.now)]
    /\ UNCHANGED <<historyVars, timer, fetch, vdom>>

\* Time passes.
DashClock ==
    /\ dash.now + (LoadDelay \div 2) <= MountTime + MaxElapsed
    /\ dash' = [dash EXCEPT !.now = @ + (LoadDelay \div 2)]
    /\ UNCHANGED <<historyVars, timer, fetch, vdom>>

\* The timeout's callback, LoadDelay after mount or later:
\* if (!controller.signal.aborted) dispatch({ type: "set", tasks: [...] }).
DashLoad ==
    /\ dash.load = "pending"
    /\ dash.now >= MountTime + LoadDelay
    /\ dash' = [dash EXCEPT
                  !.load  = "fired",
                  !.tasks = tasksReducer(dash.tasks,
                               [type |-> "set", tasks |-> InitialTasks], dash.now),
                  !.owed  = owedAfter(dash.owed,
                               [type |-> "set", tasks |-> InitialTasks], dash.now)]
    /\ UNCHANGED <<historyVars, timer, fetch, vdom>>

\* onAdd(text): nothing for a blank text, else dispatch add with text.trim().
DashAdd ==
    /\ dash.mounted
    /\ Len(dash.tasks) < MaxTasks
    /\ \E text \in Inputs :
         IF Trim(text) = ""
         THEN UNCHANGED vars
         ELSE dashDispatch([type |-> "add", text |-> Trim(text)])

\* A task's checkbox: onToggle(task.id).
DashToggle ==
    /\ dash.mounted
    /\ \E i \in 1..Len(dash.tasks) :
         dashDispatch([type |-> "toggle", id |-> dash.tasks[i].id])

\* A task's Remove button: onRemove(task.id).
DashRemove ==
    /\ dash.mounted
    /\ \E i \in 1..Len(dash.tasks) :
         dashDispatch([type |-> "remove", id |-> dash.tasks[i].id])

\* The effect's cleanup on unmount: controller.abort(); clearTimeout(timeout).
DashUnmount ==
    /\ dash.mounted
    /\ dash' = [dash EXCEPT
                  !.mounted = FALSE,
                  !.load = IF @ = "pending" THEN "cleared" ELSE @]
    /\ UNCHANGED <<historyVars, timer, fetch, vdom>>

DashNext ==
    \/ DashClock
    \/ DashLoad
    \/ DashAdd
    \/ DashToggle
    \/ DashRemove
    \/ DashUnmount

\* The other components as mounted, before any of their events.
OtherInit == TimerInit /\ FetchInit /\ VdomInit /\ DashInit

\* useReducer(historyReducer, {past: [], present: v, future: []}); the demo's
\* v is "".
Init ==
    /\ \E v \in Values :
         /\ state = [past |-> <<>>, present |-> v, future |-> <<>>]
         /\ v0 = v
    /\ prev = state
    /\ last = NoAction
    /\ prev2 = state
    /\ last2 = NoAction
    /\ run = [ok |-> TRUE, sets |-> 0, undos |-> 0]
    /\ script = IF v0 = "" THEN 0 ELSE OffScript
    /\ undone = FALSE
    /\ round = [ok |-> TRUE, sets |-> 0, undos |-> 0, redos |-> 0, top |-> state]
    /\ OtherInit

\* The reducer as a function of any history state: the store starts from
\* every history state within the bound.
InitAny ==
    /\ state \in HistoryStates
    /\ v0 = state.present
    /\ prev = state
    /\ last = NoAction
    /\ prev2 = state
    /\ last2 = NoAction
    /\ run = NotARun
    /\ script = OffScript
    /\ undone = (state.future # <<>>)
    /\ round = NotARound
    /\ OtherInit

Spec == Init /\ [][Next]_vars

SpecReducer == InitAny /\ [][Next]_vars

\* The Reset button's handler with the scenario's value "z", which is not
\* one of Values.
DispatchResetZ == script < OffScript /\ dispatch(ResetAction("z"))

\* The demo as constructed (present = ""), with the scenario's reset added.
InitDemo == Init /\ v0 = ""

NextScenario == Next \/ DispatchResetZ

SpecScenario == InitDemo /\ [][NextScenario]_vars

\* Each other component on its own, beside the undo/redo demo as constructed.
SpecTimer == InitDemo /\ [][TimerNext]_vars

SpecFetch == InitDemo /\ [][FetchNext]_vars

SpecVdom == InitDemo /\ [][VdomNext]_vars

SpecDash == InitDemo /\ [][DashNext]_vars

-----------------------------------------------------------------------------
(* The contract of the four operations.  `prev` and `last` are the state    *)
(* and the action of the most recent dispatch, `state` its result.          *)

\* C1: 'set' returns the old past with the old present appended at the end,
\* the action's value as present, and an empty future.
C1_SetEffect ==
    last.type = "set" =>
        /\ state.past = Append(prev.past, prev.present)
        /\ state.present = last.value
        /\ state.future = <<>>

C1_Witness ==
    /\ last.type = "set"
    /\ prev.past # <<>>
    /\ prev.future # <<>>
    /\ last.value # prev.present

\* C2: with a non-empty past, 'undo' makes the last element of past the
\* present and puts the old present at the front of future; past loses
\* exactly its last element, future gains exactly that head, and the rest of
\* both sequences is unchanged.
C2_UndoEffect ==
    (last.type = "undo" /\ prev.past # <<>>) =>
        /\ Len(state.past) = Len(prev.past) - 1
        /\ \A i \in 1..Len(state.past) : state.past[i] = prev.past[i]
        /\ state.present = prev.past[Len(prev.past)]
        /\ Len(state.future) = Len(prev.future) + 1
        /\ state.future[1] = prev.present
        /\ \A i \in 1..Len(prev.future) : state.future[i + 1] = prev.future[i]

C2_Witness ==
    /\ last.type = "undo"
    /\ Len(prev.past) >= 2
    /\ prev.past[1] # prev.past[Len(prev.past)]
    /\ prev.future # <<>>
    /\ prev.present # prev.future[1]

\* C3: with a non-empty future, 'redo' makes the first element of future the
\* present and appends the old present to the end of past; future loses
\* exactly its head and past gains exactly that last element.
C3_RedoEffect ==
    (last.type = "redo" /\ prev.future # <<>>) =>
        /\ Len(state.future) = Len(prev.future) - 1
        /\ \A i \in 1..Len(state.future) : state.future[i] = prev.future[i + 1]
        /\ state.present = prev.future[1]
        /\ Len(state.past) = Len(prev.past) + 1
        /\ state.past[Len(state.past)] = prev.present
        /\ \A i \in 1..Len(prev.past) : state.past[i] = prev.past[i]

C3_Witness ==
    /\ last.type = "redo"
    /\ Len(prev.future) >= 2
    /\ prev.future[1] # prev.future[Len(prev.future)]
    /\ prev.past # <<>>
    /\ prev.present # prev.past[1]

\* C4: with an empty past, 'undo' returns the state unchanged in all three
\* fields, and the result is a history state (no undefined present, nothing
\* thrown).
C4_UndoNoOp ==
    (last.type = "undo" /\ prev.past = <<>>) =>
        /\ state = prev
        /\ state.present \in Values

C4_Witness ==
    /\ last.type = "undo"
    /\ prev.past = <<>>
    /\ prev.future # <<>>
    /\ state = prev

\* C5: with an empty future, 'redo' returns the state unchanged in all three
\* fields, and the result is a history state.
C5_RedoNoOp ==
    (last.type = "redo" /\ prev.future = <<>>) =>
        /\ state = prev
        /\ state.present \in Values

C5_Witness ==
    /\ last.type = "redo"
    /\ prev.future = <<>>
    /\ prev.past # <<>>
    /\ state = prev

\* C6: 'reset' returns past = [], present = the action's value, future = [],
\* whatever the history was.
C6_ResetEffect ==
    last.type = "reset" =>
        state = [past |-> <<>>, present |-> last.value, future |-> <<>>]

C6_Witness ==
    /\ last.type = "reset"
    /\ prev.past # <<>>
    /\ prev.future # <<>>
    /\ last.value # prev.present

\* 'undo' then, immediately, 'redo' gave back the present and both lengths of
\* the state the undo was applied to.
UndoRedoRoundTrip ==
    /\ state.present = prev2.present
    /\ Len(state.past) = Len(prev2.past)
    /\ Len(state.future) = Len(prev2.future)

\* C7 as stated: for all states, 'undo' followed immediately by 'redo'
\* returns the same present and the same past and future lengths.
C7_Original ==
    (last2.type = "undo" /\ last.type = "redo") => UndoRedoRoundTrip

\* C7, amended: for all states whose past is non-empty or whose future is
\* empty, 'undo' followed immediately by 'redo' returns the same present and
\* the same past and future lengths.
C7_UndoRedoRoundTrip ==
    (/\ last2.type = "undo"
     /\ last.type = "redo"
     /\ (prev2.past # <<>> \/ prev2.future = <<>>)) => UndoRedoRoundTrip

C7_Witness ==
    /\ last2.type = "undo"
    /\ last.type = "redo"
    /\ prev2.past # <<>>
    /\ prev2.future # <<>>
    /\ prev2.present # prev2.future[Len(prev2.future)]
    /\ state = prev2

\* C8: from the constructed state (present = v0, empty past and future), n
\* 'set' actions followed by n 'undo' actions leave present = v0 and past
\* empty.
C8_SetsThenUndos ==
    (run.ok /\ run.undos = run.sets) =>
        /\ state.present = v0
        /\ state.past = <<>>

C8_Witness ==
    /\ run.ok
    /\ run.sets >= 2
    /\ run.undos = run.sets
    /\ \A i \in 1..Len(state.future) : state.future[i] # v0

\* C9: every 'set' grows past by exactly one element and leaves future empty,
\* also when the value set equals the current present.
C9_SetAlwaysRecorded ==
    last.type = "set" =>
        /\ Len(state.past) = Len(prev.past) + 1
        /\ state.future = <<>>
        /\ state # prev

C9_Witness ==
    /\ last.type = "set"
    /\ last.value = prev.present
    /\ prev.future # <<>>
    /\ Len(state.past) = Len(prev.past) + 1

\* C10: a 'set' dispatched after undos leaves future empty, so a 'redo'
\* after it restores nothing; from past=[a], present=b, future=[c], set(d)
\* gives past=[a,b], present=d, future=[].
C10_SetDiscardsFuture ==
    /\ last.type = "set" =>
          /\ state.future = <<>>
          /\ historyReducer(state, RedoAction) = state
    /\ (last2.type = "set" /\ last.type = "redo") => state = prev
    /\ \A a, b, c, d \in Values :
          (prev = [past |-> <<a>>, present |-> b, future |-> <<c>>]
              /\ last = SetAction(d))
          => state = [past |-> <<a, b>>, present |-> d, future |-> <<>>]

C10_Witness ==
    /\ last2.type = "undo"
    /\ last.type = "set"
    /\ prev = [past |-> <<"">>, present |-> "a", future |-> <<"b">>]
    /\ last.value = "b"
    /\ state = [past |-> <<"", "a">>, present |-> "b", future |-> <<>>]

\* C11: after every step, the Undo control is usable (canUndo) exactly when
\* past is non-empty and the Redo control (canRedo) exactly when future is
\* non-empty: the buttons are disabled exactly when the sequence is empty.
C11_ControlsTrackHistory ==
    /\ UndoDisabled(state) <=> state.past = <<>>
    /\ RedoDisabled(state) <=> state.future = <<>>

C11_Witness ==
    /\ last.type = "undo"
    /\ state.past = <<>>
    /\ state.future # <<>>
    /\ UndoDisabled(state)
    /\ ~RedoDisabled(state)

\* C12: 'undo' changes the state if and only if past is non-empty, and 'redo'
\* changes the state if and only if future is non-empty.
C12_ChangesIffPossible ==
    /\ last.type = "undo" => (state # prev <=> prev.past # <<>>)
    /\ last.type = "redo" => (state # prev <=> prev.future # <<>>)

C12_Witness ==
    /\ last2.type = "redo"
    /\ prev2.future = <<>>
    /\ prev = prev2
    /\ last.type = "undo"
    /\ prev.past # <<>>
    /\ state # prev

\* C13: an 'undo' dispatched when past is empty, or a 'redo' when future is
\* empty, leaves present as it was and the sequence still empty, so that any
\* number of further such calls leaves present as it was; two in a row leave
\* the present of the state the first was applied to.
C13_ExhaustedKeepsPresent ==
    /\ (last.type = "undo" /\ prev.past = <<>>) =>
          (state.present = prev.present /\ state.past = <<>>)
    /\ (last.type = "redo" /\ prev.future = <<>>) =>
          (state.present = prev.present /\ state.future = <<>>)
    /\ (last2.type = "undo" /\ last.type = "undo" /\ prev2.past = <<>>) =>
          state.present = prev2.present
    /\ (last2.type = "redo" /\ last.type = "redo" /\ prev2.future = <<>>) =>
          state.present = prev2.present

C13_Witness ==
    /\ last2.type = "undo"
    /\ last.type = "undo"
    /\ Len(prev2.past) = 1
    /\ prev.past = <<>>
    /\ prev2.present # prev.present
    /\ state.present = prev.present

\* C14: 'undo' twice in a row on a state whose past is empty yields the
\* identical state both times.
C14_BoundaryUndoIdempotent ==
    (last2.type = "undo" /\ last.type = "undo" /\ prev2.past = <<>>) =>
        (prev = prev2 /\ state = prev)

C14_Witness ==
    /\ last2.type = "undo"
    /\ last.type = "undo"
    /\ prev2.past = <<>>
    /\ Len(prev2.future) >= 2
    /\ state = prev2

\* C15: in every state reachable from construction, no element of past and no
\* element of future is undefined.
C15_NoUndefinedEntries ==
    /\ \A i \in 1..Len(state.past) : state.past[i] # Undefined
    /\ \A i \in 1..Len(state.future) : state.future[i] # Undefined

C15_Witness ==
    /\ last2.type = "undo"
    /\ prev2.past = <<>>
    /\ last.type = "redo"
    /\ state.past # <<>>
    /\ state.future # <<>>

\* C16: in every state reachable from construction, present is defined.
C16_PresentDefined == state.present # Undefined

C16_Witness ==
    /\ last2.type = "reset"
    /\ last.type = "redo"
    /\ prev.future = <<>>
    /\ state.present = last2.value

\* The states of the worked example, from the constructed one on.
ScenarioStates ==
    << [past |-> <<>>,        present |-> "",  future |-> <<>>],
       [past |-> <<"">>,      present |-> "a", future |-> <<>>],
       [past |-> <<"", "a">>, present |-> "b", future |-> <<>>],
       [past |-> <<"">>,      present |-> "a", future |-> <<"b">>],
       [past |-> <<>>,        present |-> "",  future |-> <<"a", "b">>],
       [past |-> <<>>,        present |-> "",  future |-> <<"a", "b">>],
       [past |-> <<"">>,      present |-> "a", future |-> <<"b">>],
       [past |-> <<>>,        present |-> "z", future |-> <<>>] >>

\* C17: from past=[], present="", future=[], the dispatches set("a"),
\* set("b"), undo, undo, undo, redo, reset("z") pass through exactly the
\* states listed, the third undo changing nothing.
C17_Scenario ==
    script < OffScript => state = ScenarioStates[script + 1]

C17_Witness ==
    /\ script = Len(Scenario)
    /\ last = ResetAction("z")
    /\ state = [past |-> <<>>, present |-> "z", future |-> <<>>]

\* C18: the history state changes only through 'set', 'undo', 'redo' and
\* 'reset': an action of any other type, such as 'UNDO' or 'REDO', leaves
\* past, present and future unchanged.
C18_OnlyFourOperations ==
    /\ last.type \in OtherTypes => state = prev
    /\ state # prev => last.type \in {"set", "undo", "redo", "reset"}

C18_Witness ==
    /\ last.type = "UNDO"
    /\ last2.type = "REDO"
    /\ prev2.past # <<>>
    /\ prev2.future # <<>>
    /\ state = prev2

\* C20: the store has no terminal state: in every reachable state 'reset'
\* and 'set' can be dispatched ('set' up to the model's bound on past), and
\* so can 'undo' and 'redo'; the state they lead to is again such a state.
C20_NoTerminalState ==
    /\ ENABLED DispatchReset
    /\ Len(state.past) < MaxHist => ENABLED DispatchSet
    /\ ENABLED DispatchUndo
    /\ ENABLED DispatchRedo

C20_Witness ==
    /\ last.type = "reset"
    /\ last2.type = "set"
    /\ state.past = <<>>
    /\ state.future = <<>>
    /\ UndoDisabled(state)
    /\ RedoDisabled(state)

\* C21: in FetchUsers, once the component has unmounted, a later
\* resolution or rejection of the fetch changes none of users, loading and
\* error.
C21_NoUpdateAfterUnmount ==
    ~fetch.mounted =>
        <<fetch.users, fetch.loading, fetch.error>> = fetch.atUnmount

C21_Witness ==
    /\ ~fetch.mounted
    /\ fetch.request.status = "resolved"
    /\ Len(fetch.request.value) >= 2
    /\ fetch.loading
    /\ fetch.users = <<>>

\* C22: in Timer, seconds starts at 0 and grows by exactly 1 per interval
\* tick while mounted; unmounting clears the interval, and seconds stays
\* what it was at unmount.
C22_TimerCounts ==
    /\ timer.seconds = timer.ticks
    /\ timer.mounted => timer.interval
    /\ ~timer.mounted => (~timer.interval /\ timer.seconds = timer.atUnmount)

C22_Witness ==
    /\ ~timer.mounted
    /\ timer.ticks >= 3
    /\ timer.seconds = timer.atUnmount

\* C24: every 'undo' and every 'redo' leaves the timeline
\* past ++ [present] ++ future unchanged as one sequence, and so preserves
\* length(past) + length(future).
C24_TimelinePreserved ==
    last.type \in {"undo", "redo"} =>
        /\ state.past \o <<state.present>> \o state.future
              = prev.past \o <<prev.present>> \o prev.future
        /\ Len(state.past) + Len(state.future) = Len(prev.past) + Len(prev.future)

C24_Witness ==
    /\ last.type = "undo"
    /\ last2.type = "redo"
    /\ state # prev
    /\ prev # prev2
    /\ Len(state.past) >= 2
    /\ state.past[1] # state.past[2]
    /\ state.future # <<>>

\* C25: for every state with a non-empty future, 'redo' followed
\* immediately by 'undo' returns a state equal to the original in past,
\* present and future.
C25_RedoUndoRoundTrip ==
    (last2.type = "redo" /\ last.type = "undo" /\ prev2.future # <<>>) =>
        state = prev2

C25_Witness ==
    /\ last2.type = "redo"
    /\ last.type = "undo"
    /\ Len(prev2.future) >= 2
    /\ prev2.past # <<>>
    /\ prev2.past[1] # prev2.present
    /\ prev # prev2
    /\ state = prev2

\* C26: in every state reachable from construction, future is non-empty
\* only if an undo that changed the state has occurred since the most recent
\* set or reset, or since construction.
C26_FutureOnlyAfterUndo == state.future # <<>> => undone

C26_Witness ==
    /\ state.future # <<>>
    /\ undone
    /\ last.type = "redo"
    /\ prev # state

\* C27: from construction with present = v0, n sets, then n undos, then n
\* redos give the state right after the last set: past = [v0, ..., v(n-1)],
\* present = vn, future = [].
C27_SetsUndosRedos ==
    (round.ok /\ round.undos = round.sets /\ round.redos = round.sets) =>
        /\ state = round.top
        /\ state.future = <<>>
        /\ Len(state.past) = round.sets
        /\ round.sets > 0 => state.past[1] = v0

C27_Witness ==
    /\ round.ok
    /\ round.sets >= 2
    /\ round.undos = round.sets
    /\ round.redos = round.sets
    /\ state.past[2] # v0
    /\ state.present # state.past[2]

\* C23: in VdomKeysFocusDemo, after 'move first to end' and after 'remove
\* first', every item that is still listed has in GoodList (id keys) the text
\* its row had before, while in BadList (index keys) every position still
\* listed has the text it had before, which after a move of two or more
\* items is the row of a different item.
C23_KeysAndRowState ==
    vdom.lastOp \in {"move", "remove"} =>
        /\ \A i \in 1..Len(vdom.items) : \A j \in 1..Len(vdom.prevItems) :
              vdom.items[i].id = vdom.prevItems[j].id =>
                  RowText(vdom.good, vdom.items, "good", i)
                      = RowText(vdom.prevGood, vdom.prevItems, "good", j)
        /\ \A i \in 1..Len(vdom.items) :
              RowText(vdom.bad, vdom.items, "bad", i)
                  = RowText(vdom.prevBad, vdom.prevItems, "bad", i)
        /\ (vdom.lastOp = "move" /\ Len(vdom.items) >= 2) =>
              \A i \in 1..Len(vdom.items) :
                  vdom.items[i].id # vdom.prevItems[i].id

C23_Witness ==
    /\ vdom.lastOp = "move"
    /\ Len(vdom.items) >= 3
    /\ RowText(vdom.prevGood, vdom.prevItems, "good", 1) = "x"
    /\ RowText(vdom.good, vdom.items, "good", Len(vdom.items)) = "x"
    /\ RowText(vdom.good, vdom.items, "good", 1) = ""
    /\ RowText(vdom.prevBad, vdom.prevItems, "bad", 1) = "y"
    /\ RowText(vdom.bad, vdom.items, "bad", 1) = "y"
    /\ vdom.items[1].id # vdom.prevItems[1].id

\* C28: in Dashboard, a task added through 'add' stays in the task list
\* until a 'remove' with its id is dispatched, in every interleaving of the
\* user's actions with the delayed initial load.
C28_AddedTaskStays ==
    \A o \in dash.owed :
        \E i \in 1..Len(dash.tasks) :
            dash.tasks[i].id = o.id /\ dash.tasks[i].text = o.text

\* C29: in every reachable state of the Dashboard task list, task ids are
\* pairwise distinct.
C29_TaskIdsDistinct ==
    \A i, j \in 1..Len(dash.tasks) :
        i # j => dash.tasks[i].id # dash.tasks[j].id

=============================================================================
